---- MODULE Spec2Model ----
(***************************************************************************)
(* SIWEJwtBearerAuth (sdk/authentication-jwt-bearer/flow-siwe.ts).         *)
(*                                                                         *)
(* Two logical callers use one SIWEJwtBearerAuth object.  Every `await` of *)
(* the class is a point where the caller is suspended and the other caller *)
(* (or prepare(), or the clock) may run.  A caller's position `pc` names   *)
(* the promise it is suspended on; the action taken at that position is    *)
(* the settling of the promise followed by the synchronous code that runs  *)
(* up to the next await.                                                   *)
(***************************************************************************)
EXTENDS Integers, Sequences, FiniteSets, TLC

VARIABLES signer, storage, now, frame, nonceCounter, started, embedded

vars == <<signer, storage, now, frame, nonceCounter, started, embedded>>

(* ---------------------------- bounds ---------------------------------- *)

\* last instant of the clock
MaxTime == 2
\* accessor / signer calls started over the whole run
MaxCalls == 2

(* --------------------------- constants -------------------------------- *)

\* ./constants SESSION_LIFETIME_MS, in clock ticks of the model
SESSION_LIFETIME_MS == 2

Callers == {"c1", "c2"}

\* absent value: undefined / null
Null == [null |-> TRUE]

\* #config given to the constructor
config == [type |-> "SiWE", env |-> "prd"]

\* the wallets a caller may hand to prepare()
Signers ==
  { [address |-> "0xA", chainId |-> 1, domain |-> "a.example"],
    [address |-> "0xB", chainId |-> 5, domain |-> "b.example"] }

\* messages a caller may pass to the public signMessage()
UserMessages == { [text |-> "hello"] }

\* a session left in storage by an earlier run of the program
StoredBefore ==
  [ profile |-> [profileId |-> 0],
    token   |-> [accessToken |-> [access |-> 0], obtainedAt |-> 0] ]

(* ----------------------- external collaborators ----------------------- *)

\* failure raised by a collaborator
CollaboratorFailure(who) == [name |-> "CollaboratorFailure", from |-> who]

\* thrown by #assertSigner
ValidationError == [name |-> "ValidationError", from |-> "assertSigner"]

NoError == [name |-> "none", from |-> "none"]

SIWE_LOGIN_URL(env) == [url |-> "siwe/login", env |-> env]

\* identity service: a one-time nonce per request
getNonce(address, env, n) == [nonce |-> n, identifier |-> address]

\* identity service: the profile and the intermediate token it issues for a
\* signed message; one nonce is honoured once, so the nonce names the issue
authenticate(rawMessage, signature, type, env) ==
  [ token   |-> [jwt |-> rawMessage.nonce],
    profile |-> [profileId |-> rawMessage.nonce] ]

\* identity service: final token for an intermediate token, stamped when obtained
authorizeOIDC(token, env, t) ==
  [ accessToken |-> [access |-> token.jwt], obtainedAt |-> t ]

\* the signing capability of a wallet
SignerSignMessage(s, message) == [signedBy |-> s.address, message |-> message]

(* --------------------------- pure code -------------------------------- *)

\* what dereferencing an undefined signer throws
TypeError == [name |-> "TypeError", from |-> "undefined"]

\* bug: the guard is missing, the absent signer is dereferenced downstream
assertSigner_Unguarded(s) == IF s = Null THEN TypeError ELSE NoError

\* #assertSigner: the error thrown, or NoError
assertSigner(s) == IF s = Null THEN ValidationError ELSE NoError

\* bug: the gate reports no session whatever storage holds
getAuthSession_NeverCached(auth, currentTime) == Null

\* bug: the boundary age counts as valid (<= for <)
getAuthSession_Inclusive(auth, currentTime) ==
  IF auth = Null
    THEN Null
    ELSE IF currentTime - auth.token.obtainedAt <= SESSION_LIFETIME_MS
           THEN auth
           ELSE Null

\* bug: the age is computed the wrong way round, so it never reaches the
\* lifetime
getAuthSession_AgeSwapped(auth, currentTime) ==
  IF auth = Null
    THEN Null
    ELSE IF auth.token.obtainedAt - currentTime < SESSION_LIFETIME_MS
           THEN auth
           ELSE Null

\* #getAuthSession, lines 82-91: the decision on what storage returned
getAuthSession(auth, currentTime) ==
  IF auth = Null
    THEN Null
    ELSE LET sessionAge == currentTime - auth.token.obtainedAt
         IN  IF sessionAge < SESSION_LIFETIME_MS THEN auth ELSE Null

\* bug: the message is built without the nonce just obtained
createSiWELoginRawMessage_StaleNonce(s, nonce, issuedAt) ==
  [ domain   |-> s.domain,
    address  |-> s.address,
    uri      |-> SIWE_LOGIN_URL(config.env),
    version  |-> "1",
    chainId  |-> s.chainId,
    nonce    |-> 1,
    issuedAt |-> issuedAt ]

\* #createSiWELoginRawMessage: the SiweMessage fields, read from #signer now
createSiWELoginRawMessage(s, nonce, issuedAt) ==
  [ domain   |-> s.domain,
    address  |-> s.address,
    uri      |-> SIWE_LOGIN_URL(config.env),
    version  |-> "1",
    chainId  |-> s.chainId,
    nonce    |-> nonce,
    issuedAt |-> issuedAt ]

\* #login, lines 118-121
LoginResult(authResponse, tokenResponse) ==
  [ profile |-> authResponse.profile, token |-> tokenResponse ]

\* bug: getUserProfile() copied from getAccessToken() returns the token
AccessorValue_AlwaysToken(op, response) == response.token.accessToken

\* what the accessor hands back from a LoginResponse
AccessorValue(op, response) ==
  IF op = "getAccessToken" THEN response.token.accessToken ELSE response.profile

(* ------------------------ a caller's frame ---------------------------- *)

IdleFrame ==
  [ pc            |-> "idle",
    op            |-> "none",
    auth          |-> Null,
    currentTime   |-> -1,
    session       |-> Null,
    address       |-> "",
    nonceRes      |-> Null,
    rawMessage    |-> Null,
    signature     |-> Null,
    authResponse  |-> Null,
    tokenResponse |-> Null,
    result        |-> Null,
    signerCalled  |-> Null,
    ret           |-> Null,
    err           |-> NoError,
    invoked       |-> << >>,
    args          |-> << >> ]

\* a collaborator is called: the caller suspends on its promise.  The frame
\* records which collaborators the call has invoked, and with what arguments
Invoke(f, fn, arg) ==
  [f EXCEPT !.pc = fn, !.invoked = Append(@, fn), !.args = Append(@, arg)]

\* the call is over: the locals of the async functions are gone, the caller
\* holds the outcome (and the record of what the call invoked remains)
Settle(f, pc, ret, err) ==
  [IdleFrame EXCEPT !.pc = pc, !.op = f.op, !.ret = ret, !.err = err,
                    !.invoked = f.invoked]

\* an exception leaves the async function: its promise rejects with e
Throw(f, e) == Settle(f, "failed", Null, e)

\* the async function returns: its promise resolves with v
Resolve(f, v) == Settle(f, "done", [value |-> v], NoError)

\* positions of a caller that is not inside a call: it never called, or its
\* last call resolved or rejected
Settled == {"idle", "done", "failed"}

\* the promises of collaborators a caller can be suspended on
Collaborators ==
  {"getLoginResponse", "getNonce", "signMessage", "authenticate",
   "authorizeOIDC", "setLoginResponse"}

Init ==
  /\ signer = Null
  /\ storage \in {Null, StoredBefore}
  /\ now = 0
  /\ frame = [c \in Callers |-> IdleFrame]
  /\ nonceCounter = 0
  /\ started = 0
  /\ embedded = << >>

(* ----------------------------- actions -------------------------------- *)

\* getAccessToken() / getUserProfile(), lines 47 / 57 and 81:
\* #getAuthSession starts and calls storage.getLoginResponse()
CallAccessor(c, op) ==
  /\ frame[c].pc \in Settled
  /\ started < MaxCalls
  /\ started' = started + 1
  /\ frame' = [frame EXCEPT ![c] =
        Invoke([IdleFrame EXCEPT !.op = op], "getLoginResponse", Null)]
  /\ UNCHANGED <<signer, storage, now, nonceCounter,
                 embedded>>

\* bug (or feature): the gate deletes the expired session it finds
GetAuthSession_Purge(c) ==
  /\ frame[c].pc = "getLoginResponse"
  /\ frame' = [frame EXCEPT ![c] =
        [@ EXCEPT !.pc = "getAuthSession",
                  !.auth = storage,
                  !.currentTime = IF storage = Null THEN -1 ELSE now,
                  !.session = getAuthSession(storage, now)]]
  /\ storage' = getAuthSession(storage, now)
  /\ UNCHANGED <<signer, now, nonceCounter, started, embedded>>

\* storage answers; #getAuthSession runs lines 82-91 (Date.now() is read only
\* when storage returned a session) and resolves with the session or null
GetAuthSession(c) ==
  /\ frame[c].pc = "getLoginResponse"
  /\ frame' = [frame EXCEPT ![c] =
        [@ EXCEPT !.pc = "getAuthSession",
                  !.auth = storage,
                  !.currentTime = IF storage = Null THEN -1 ELSE now,
                  !.session = getAuthSession(storage, now)]]
  /\ UNCHANGED <<signer, storage, now, nonceCounter, started, embedded>>

\* positions inside #login
LoginStages ==
  {"getIdentifier", "getNonce", "signMessage", "authenticate", "authorizeOIDC",
   "setLoginResponse"}

\* bug (or feature): a login starts only when no other login is in flight
AccessorResume_OneLoginAtATime(c) ==
  /\ frame[c].pc = "getAuthSession"
  /\ frame[c].session = Null
       => \A d \in Callers \ {c} :
            ~(frame[d].op \in {"getAccessToken", "getUserProfile"}
              /\ frame[d].pc \in LoginStages)
  /\ frame' = [frame EXCEPT ![c] =
        IF @.session # Null
          THEN Resolve(@, AccessorValue(@.op, @.session))
          ELSE IF assertSigner(signer) # NoError
                 THEN Throw(@, assertSigner(signer))
                 ELSE [@ EXCEPT !.pc = "getIdentifier",
                                !.auth = Null,
                                !.currentTime = -1,
                                !.address = signer.address]]
  /\ UNCHANGED <<signer, storage, now, nonceCounter, started, embedded>>

\* bug (or feature): the accessor requires a signer before it looks at the
\* session the gate returned
AccessorResume_AssertFirst(c) ==
  /\ frame[c].pc = "getAuthSession"
  /\ frame' = [frame EXCEPT ![c] =
        IF assertSigner(signer) # NoError
          THEN Throw(@, assertSigner(signer))
          ELSE IF @.session # Null
                 THEN Resolve(@, AccessorValue(@.op, @.session))
                 ELSE [@ EXCEPT !.pc = "getIdentifier",
                                !.auth = Null,
                                !.currentTime = -1,
                                !.address = signer.address]]
  /\ UNCHANGED <<signer, storage, now, nonceCounter, started, embedded>>

\* the accessor resumes, lines 48-52 / 58-62; on a miss #login starts and
\* runs lines 95-98 up to `await this.getIdentifier()` (the locals of
\* #getAuthSession, which has returned, are gone)
AccessorResume(c) ==
  /\ frame[c].pc = "getAuthSession"
  /\ frame' = [frame EXCEPT ![c] =
        IF @.session # Null
          THEN Resolve(@, AccessorValue(@.op, @.session))
          ELSE IF assertSigner(signer) # NoError
                 THEN Throw(@, assertSigner(signer))
                 ELSE [@ EXCEPT !.pc = "getIdentifier",
                                !.auth = Null,
                                !.currentTime = -1,
                                !.address = signer.address]]
  /\ UNCHANGED <<signer, storage, now, nonceCounter, started, embedded>>

\* #login resumes with the address, line 99: getNonce is called
LoginGetNonce(c) ==
  /\ frame[c].pc = "getIdentifier"
  /\ frame' = [frame EXCEPT ![c] =
        Invoke(@, "getNonce", [address |-> @.address, env |-> config.env])]
  /\ UNCHANGED <<signer, storage, now, nonceCounter, started, embedded>>

\* the frame after lines 100-101 and 72-73: the message is built from the
\* nonce and the signer bound now, and that signer's signMessage is called
LoginSign(f, nonceRes) ==
  IF assertSigner(signer) # NoError
    THEN Throw([f EXCEPT !.nonceRes = nonceRes], assertSigner(signer))
    ELSE LET rawMessage ==
               createSiWELoginRawMessage(signer, nonceRes.nonce, now)
         IN  Invoke([f EXCEPT !.nonceRes = nonceRes,
                              !.rawMessage = rawMessage,
                              !.signerCalled = signer],
                    "signMessage",
                    [signer |-> signer, message |-> rawMessage])

\* the nonce arrives; #login runs lines 100-101
GetNonceSettles(c) ==
  /\ frame[c].pc = "getNonce"
  /\ nonceCounter' = nonceCounter + 1
  /\ frame' = [frame EXCEPT ![c] =
        LoginSign(@, getNonce(@.address, config.env, nonceCounter + 1))]
  /\ embedded' =
        IF frame'[c].pc = "signMessage"
          THEN Append(embedded, frame'[c].rawMessage.nonce)
          ELSE embedded
  /\ UNCHANGED <<signer, storage, now, started>>

\* the public signMessage(message), lines 72-73
CallSignMessage(c, message) ==
  /\ frame[c].pc \in Settled
  /\ started < MaxCalls
  /\ started' = started + 1
  /\ frame' = [frame EXCEPT ![c] =
        LET f == [IdleFrame EXCEPT !.op = "signMessage"]
        IN  IF assertSigner(signer) # NoError
              THEN Throw(f, assertSigner(signer))
              ELSE Invoke([f EXCEPT !.rawMessage = message,
                                    !.signerCalled = signer],
                          "signMessage",
                          [signer |-> signer, message |-> message])]
  /\ UNCHANGED <<signer, storage, now, nonceCounter,
                 embedded>>

\* bug: the message is built again for authenticate instead of reusing the
\* signed one
SignMessageSettles_Rebuilt(c) ==
  /\ frame[c].pc = "signMessage"
  /\ frame' = [frame EXCEPT ![c] =
        LET signature == SignerSignMessage(@.signerCalled, @.rawMessage)
            f == [@ EXCEPT !.signature = signature]
        IN  IF @.op = "signMessage"
              THEN Resolve(f, signature)
              ELSE Invoke(f, "authenticate",
                          [rawMessage |->
                             createSiWELoginRawMessage(signer, @.nonceRes.nonce,
                                                       now),
                           signature |-> signature,
                           type |-> config.type, env |-> config.env])]
  /\ UNCHANGED <<signer, storage, now, nonceCounter, started, embedded>>

\* the wallet returns the signature; signMessage() resolves, and inside
\* #login lines 104-109 call authenticate
SignMessageSettles(c) ==
  /\ frame[c].pc = "signMessage"
  /\ frame' = [frame EXCEPT ![c] =
        LET signature == SignerSignMessage(@.signerCalled, @.rawMessage)
            f == [@ EXCEPT !.signature = signature]
        IN  IF @.op = "signMessage"
              THEN Resolve(f, signature)
              ELSE Invoke(f, "authenticate",
                          [rawMessage |-> @.rawMessage, signature |-> signature,
                           type |-> config.type, env |-> config.env])]
  /\ UNCHANGED <<signer, storage, now, nonceCounter, started, embedded>>

\* authenticate answers; lines 112-115 call authorizeOIDC
AuthenticateSettles(c) ==
  /\ frame[c].pc = "authenticate"
  /\ frame' = [frame EXCEPT ![c] =
        LET authResponse ==
              authenticate(@.rawMessage, @.signature, config.type, config.env)
        IN  Invoke([@ EXCEPT !.authResponse = authResponse],
                   "authorizeOIDC",
                   [token |-> authResponse.token, env |-> config.env])]
  /\ UNCHANGED <<signer, storage, now, nonceCounter, started, embedded>>

\* authorizeOIDC answers; lines 118-123 build the result and call
\* storage.setLoginResponse
AuthorizeOIDCSettles(c) ==
  /\ frame[c].pc = "authorizeOIDC"
  /\ frame' = [frame EXCEPT ![c] =
        LET tokenResponse ==
              authorizeOIDC(@.authResponse.token, config.env, now)
            result == LoginResult(@.authResponse, tokenResponse)
        IN  Invoke([@ EXCEPT !.tokenResponse = tokenResponse,
                             !.result = result],
                   "setLoginResponse", [result |-> result])]
  /\ UNCHANGED <<signer, storage, now, nonceCounter, started, embedded>>

\* bug: the new token is merged into the session already stored
SetLoginResponseSettles_Merge(c) ==
  /\ frame[c].pc = "setLoginResponse"
  /\ storage' = IF storage = Null
                  THEN frame[c].result
                  ELSE [profile |-> storage.profile, token |-> frame[c].result.token]
  /\ frame' = [frame EXCEPT ![c] =
        Resolve(@, AccessorValue(@.op, @.result))]
  /\ UNCHANGED <<signer, now, nonceCounter, started, embedded>>

\* bug (or feature): a session with a newer token already in storage is kept
SetLoginResponseSettles_KeepNewer(c) ==
  /\ frame[c].pc = "setLoginResponse"
  /\ storage' =
        IF storage # Null
             /\ storage.token.obtainedAt > frame[c].result.token.obtainedAt
          THEN storage
          ELSE frame[c].result
  /\ frame' = [frame EXCEPT ![c] =
        Resolve(@, AccessorValue(@.op, @.result))]
  /\ UNCHANGED <<signer, now, nonceCounter, started, embedded>>

\* storage has written; #login returns the result (line 125) and the
\* accessor returns its field (line 53 / 63)
SetLoginResponseSettles(c) ==
  /\ frame[c].pc = "setLoginResponse"
  /\ storage' = frame[c].result
  /\ frame' = [frame EXCEPT ![c] =
        Resolve(@, AccessorValue(@.op, @.result))]
  /\ UNCHANGED <<signer, now, nonceCounter, started, embedded>>

\* bug: the rejection is caught and rethrown as another error
Propagate_Wrapped(f, e) == Throw(f, [name |-> "Error", from |-> "login"])

\* bug: a rejected collaborator call is tried again
Propagate_Retry(f, e) == Invoke(f, f.pc, f.args[Len(f.args)])

\* the frame after a collaborator's promise rejects with e: no handler in
\* the class catches it, so the call rejects with e
Propagate(f, e) == Throw(f, e)

\* bug: the profile is saved before authorizeOIDC has answered, so a failed
\* authorize leaves it in storage
Rejected_ProfileSaved(c) ==
  /\ frame[c].pc \in Collaborators
  /\ frame' = [frame EXCEPT ![c] = Propagate(@, CollaboratorFailure(@.pc))]
  /\ storage' =
        IF frame[c].pc = "authorizeOIDC"
          THEN [ profile |-> frame[c].authResponse.profile,
                 token   |-> IF storage = Null THEN StoredBefore.token
                                               ELSE storage.token ]
          ELSE storage
  /\ UNCHANGED <<signer, now, nonceCounter, started, embedded>>

\* a collaborator fails (storage, identity service, or the wallet)
Rejected(c) ==
  /\ frame[c].pc \in Collaborators
  /\ frame' = [frame EXCEPT ![c] = Propagate(@, CollaboratorFailure(@.pc))]
  /\ UNCHANGED <<signer, storage, now, nonceCounter, started, embedded>>

\* bug: a refused call is remembered, and the caller's next getIdentifier()
\* is refused again
CallGetIdentifier_Latched(c) ==
  /\ frame[c].pc \in Settled
  /\ started < MaxCalls
  /\ started' = started + 1
  /\ frame' = [frame EXCEPT ![c] =
        LET f == [IdleFrame EXCEPT !.op = "getIdentifier"]
        IN  IF assertSigner(signer) # NoError \/ frame[c].err = ValidationError
              THEN Throw(f, ValidationError)
              ELSE Resolve(f, signer.address)]
  /\ UNCHANGED <<signer, storage, now, nonceCounter,
                 embedded>>

\* getIdentifier(), lines 67-68
CallGetIdentifier(c) ==
  /\ frame[c].pc \in Settled
  /\ started < MaxCalls
  /\ started' = started + 1
  /\ frame' = [frame EXCEPT ![c] =
        LET f == [IdleFrame EXCEPT !.op = "getIdentifier"]
        IN  IF assertSigner(signer) # NoError
              THEN Throw(f, assertSigner(signer))
              ELSE Resolve(f, signer.address)]
  /\ UNCHANGED <<signer, storage, now, nonceCounter,
                 embedded>>

\* bug (or feature): only the first signer is kept
prepare_OnlyIfUnset(s) ==
  /\ signer = Null
  /\ signer' = s
  /\ UNCHANGED <<storage, now, frame, nonceCounter, started, embedded>>

\* prepare(signer), line 77
prepare(s) ==
  /\ signer' = s
  /\ UNCHANGED <<storage, now, frame, nonceCounter, started, embedded>>

\* Date.now() advances
Tick ==
  /\ now < MaxTime
  /\ now' = now + 1
  /\ UNCHANGED <<signer, storage, frame, nonceCounter, started, embedded>>

Next ==
  \/ \E c \in Callers : CallAccessor(c, "getAccessToken")
  \/ \E c \in Callers : CallAccessor(c, "getUserProfile")
  \/ \E c \in Callers : GetAuthSession(c)
  \/ \E c \in Callers : AccessorResume(c)
  \/ \E c \in Callers : LoginGetNonce(c)
  \/ \E c \in Callers : GetNonceSettles(c)
  \/ \E c \in Callers, m \in UserMessages : CallSignMessage(c, m)
  \/ \E c \in Callers : SignMessageSettles(c)
  \/ \E c \in Callers : AuthenticateSettles(c)
  \/ \E c \in Callers : AuthorizeOIDCSettles(c)
  \/ \E c \in Callers : SetLoginResponseSettles(c)
  \/ \E c \in Callers : Rejected(c)
  \/ \E c \in Callers : CallGetIdentifier(c)
  \/ \E s \in Signers : prepare(s)
  \/ Tick

Spec == Init /\ [][Next]_vars

TypeOK ==
  /\ signer \in Signers \cup {Null}
  /\ now \in 0..MaxTime
  /\ started \in 0..MaxCalls
  /\ nonceCounter \in 0..MaxCalls
  /\ Len(embedded) <= nonceCounter

(* ------------------------------ claims -------------------------------- *)

AccessorOps == {"getAccessToken", "getUserProfile"}

\* the collaborators of the login orchestrator
LoginCollaborators ==
  {"getNonce", "signMessage", "authenticate", "authorizeOIDC",
   "setLoginResponse"}

Range(seq) == {seq[i] : i \in 1..Len(seq)}

\* the caller's call has just returned from the cache gate's session
CacheHit(c) ==
  /\ frame[c].pc = "done"
  /\ frame[c].op \in AccessorOps
  /\ frame[c].invoked = <<"getLoginResponse">>

\* C1 (cache short-circuit): when the session storage returns to a call of
\* getAccessToken() / getUserProfile() is younger than SESSION_LIFETIME_MS at
\* that moment, the gate hands that session to the accessor, the accessor
\* returns its token.accessToken / its profile, and the call has invoked no
\* collaborator but storage.getLoginResponse.
C1_CacheShortCircuit ==
  [][\A c \in Callers :
       /\ ( /\ frame[c].pc = "getLoginResponse"
            /\ frame'[c].pc = "getAuthSession"
            /\ storage # Null
            /\ now - storage.token.obtainedAt < SESSION_LIFETIME_MS )
          => frame'[c].session = storage
       /\ ( /\ frame[c].pc = "getAuthSession"
            /\ frame[c].session # Null
            /\ frame'[c] # frame[c] )
          => /\ frame'[c].pc = "done"
             /\ frame'[c].op = frame[c].op
             /\ frame[c].op = "getAccessToken"
                  => frame'[c].ret = [value |-> frame[c].session.token.accessToken]
             /\ frame[c].op = "getUserProfile"
                  => frame'[c].ret = [value |-> frame[c].session.profile]
             /\ frame'[c].invoked = <<"getLoginResponse">>
             /\ Range(frame'[c].invoked) \cap LoginCollaborators = {}
             /\ UNCHANGED <<storage, nonceCounter, embedded>>
    ]_vars

\* both accessors have answered from the stored session
C1_Witness ==
  \E c, d \in Callers :
    /\ CacheHit(c) /\ frame[c].op = "getAccessToken"
    /\ frame[c].ret = [value |-> StoredBefore.token.accessToken]
    /\ CacheHit(d) /\ frame[d].op = "getUserProfile"
    /\ frame[d].ret = [value |-> StoredBefore.profile]

\* C2 (expiry boundary): for a stored session obtained at T the cache gate
\* returns the session exactly when currentTime - T < SESSION_LIFETIME_MS: it
\* returns it at T + SESSION_LIFETIME_MS - 1 and returns no session at
\* T + SESSION_LIFETIME_MS and at every later time.
C2_ExpiryBoundary ==
  \A c \in Callers :
    (frame[c].pc = "getAuthSession" /\ frame[c].auth # Null) =>
      LET T == frame[c].auth.token.obtainedAt
          t == frame[c].currentTime
      IN  /\ t < T + SESSION_LIFETIME_MS  => frame[c].session = frame[c].auth
          /\ t >= T + SESSION_LIFETIME_MS => frame[c].session = Null
          /\ t = T + SESSION_LIFETIME_MS - 1 => frame[c].session = frame[c].auth
          /\ t = T + SESSION_LIFETIME_MS => frame[c].session = Null

\* one caller read the session at its last valid instant, the other at the
\* first instant it is expired
C2_Witness ==
  \E c, d \in Callers :
    /\ frame[c].pc = "getAuthSession" /\ frame[c].auth # Null
    /\ frame[c].currentTime = frame[c].auth.token.obtainedAt + SESSION_LIFETIME_MS - 1
    /\ frame[c].session = frame[c].auth
    /\ frame[d].pc = "getAuthSession" /\ frame[d].auth # Null
    /\ frame[d].currentTime = frame[d].auth.token.obtainedAt + SESSION_LIFETIME_MS
    /\ frame[d].session = Null

\* the number of times a call has invoked the collaborator fn
Times(f, fn) == Cardinality({i \in 1..Len(f.invoked) : f.invoked[i] = fn})

\* the caller's accessor call went through the cache gate, found no session
\* and so triggered a login, and is over
LoginTriggeredAndOver(c) ==
  /\ frame[c].pc \in {"done", "failed"}
  /\ frame[c].op \in AccessorOps
  /\ ~CacheHit(c)
  /\ frame[c].err # CollaboratorFailure("getLoginResponse")

\* C3 as stated (precondition): with no signer ever attached, getIdentifier(),
\* signMessage() and a triggered login fail with the precondition error, and
\* the call has made no network call and no storage call at all.
C3_Original ==
  signer = Null =>
    \A c \in Callers :
      /\ (frame[c].pc \in {"done", "failed"}
            /\ frame[c].op \in {"getIdentifier", "signMessage"})
           => /\ frame[c].pc = "failed"
              /\ frame[c].err = ValidationError
              /\ frame[c].invoked = << >>
      /\ LoginTriggeredAndOver(c)
           => /\ frame[c].pc = "failed"
              /\ frame[c].err = ValidationError
              /\ frame[c].invoked = << >>

\* C3 amended: with no signer ever attached, getIdentifier(), signMessage()
\* and a triggered login fail with the precondition error; the call makes no
\* network call and no storage write; getIdentifier() and signMessage() make
\* no storage call at all, while an accessor has made exactly one storage
\* read (getLoginResponse) before its login is refused.
C3_PreconditionAmended ==
  signer = Null =>
    \A c \in Callers :
      /\ Range(frame[c].invoked) \cap LoginCollaborators = {}
      /\ (frame[c].pc \in {"done", "failed"}
            /\ frame[c].op \in {"getIdentifier", "signMessage"})
           => /\ frame[c].pc = "failed"
              /\ frame[c].err = ValidationError
              /\ frame[c].invoked = << >>
      /\ LoginTriggeredAndOver(c)
           => /\ frame[c].pc = "failed"
              /\ frame[c].err = ValidationError
              /\ frame[c].invoked = <<"getLoginResponse">>

\* without a signer, one caller's login and the other's getIdentifier() have
\* been refused
C3_Witness ==
  /\ signer = Null
  /\ \E c, d \in Callers :
       /\ frame[c].op = "getAccessToken" /\ frame[c].pc = "failed"
       /\ frame[c].err = ValidationError
       /\ frame[d].op = "getIdentifier" /\ frame[d].pc = "failed"
       /\ frame[d].err = ValidationError

\* C4 (no write on failed login): storage changes only in the step in which a
\* login's setLoginResponse completes and that login returns; a login attempt
\* that fails at the signer check, getNonce, signing, authenticate or
\* authorizeOIDC leaves storage as it is and has never invoked
\* storage.setLoginResponse.
C4_NoWriteOnFailedLogin ==
  [][ /\ storage' # storage
         => \E c \in Callers :
              /\ frame[c].pc = "setLoginResponse"
              /\ frame'[c].pc = "done"
              /\ storage' = frame[c].result
      /\ \A c \in Callers :
           ( /\ frame[c].op \in AccessorOps
             /\ frame[c].pc \notin Settled
             /\ frame[c].pc # "setLoginResponse"
             /\ frame'[c].pc = "failed" )
           => /\ storage' = storage
              /\ Times(frame'[c], "setLoginResponse") = 0
    ]_vars

\* a login failed at authorizeOIDC and the expired session it found is still
\* what storage holds
C4_Witness ==
  \E c \in Callers :
    /\ frame[c].pc = "failed"
    /\ frame[c].err = CollaboratorFailure("authorizeOIDC")
    /\ storage = StoredBefore

\* the login of this accessor call has completed
LoggedIn(c) ==
  /\ frame[c].pc = "done"
  /\ frame[c].op \in AccessorOps
  /\ ~CacheHit(c)

\* C5 (atomic pair persistence): a login calls storage.setLoginResponse
\* exactly once, with the profile of its own authenticate response and the
\* token of its own authorizeOIDC response; so the profile and the token in
\* storage always come from one and the same login attempt.
C5_AtomicPair ==
  /\ \A c \in Callers :
       /\ frame[c].pc = "setLoginResponse"
            => /\ Times(frame[c], "setLoginResponse") = 1
               /\ frame[c].args[Len(frame[c].args)] =
                    [result |-> [profile |-> frame[c].authResponse.profile,
                                 token   |-> frame[c].tokenResponse]]
       /\ LoggedIn(c) => Times(frame[c], "setLoginResponse") = 1
       /\ Times(frame[c], "setLoginResponse") <= 1
  /\ storage # Null
       => storage.profile.profileId = storage.token.accessToken.access

\* two logins have both written, and storage holds the pair of the second
C5_Witness ==
  /\ \A c \in Callers : LoggedIn(c)
  /\ storage # Null
  /\ storage.profile.profileId = 2
  /\ storage.token.accessToken.access = 2

\* C6 (full round trip): a login that completes returns from getAccessToken()
\* the accessToken authorizeOIDC produced and leaves in storage exactly the
\* pair {profile from authenticate, token from authorizeOIDC}; and a
\* getUserProfile() that afterwards reads a session while its token is
\* younger than SESSION_LIFETIME_MS returns the profile of the login that
\* produced that token, without a login of its own.
C6_RoundTrip ==
  [][\A c \in Callers :
       /\ (frame[c].pc = "setLoginResponse" /\ frame'[c].pc = "done")
          => /\ frame[c].op = "getAccessToken"
                  => frame'[c].ret =
                       [value |-> frame[c].tokenResponse.accessToken]
             /\ frame[c].tokenResponse.accessToken =
                  [access |-> frame[c].authResponse.token.jwt]
             /\ storage' = [ profile |-> frame[c].authResponse.profile,
                             token   |-> frame[c].tokenResponse ]
       /\ ( /\ frame[c].op = "getUserProfile"
            /\ frame[c].pc = "getLoginResponse"
            /\ frame'[c].pc = "getAuthSession"
            /\ storage # Null
            /\ now - storage.token.obtainedAt < SESSION_LIFETIME_MS )
          => frame'[c].session = storage
       /\ ( /\ frame[c].op = "getUserProfile"
            /\ frame[c].pc = "getAuthSession"
            /\ frame[c].session # Null
            /\ frame'[c] # frame[c] )
          => /\ frame'[c].pc = "done"
             /\ frame'[c].ret =
                  [value |->
                     [profileId |-> frame[c].session.token.accessToken.access]]
             /\ frame'[c].invoked = <<"getLoginResponse">>
    ]_vars

\* one caller logged in from empty or expired storage and got the token of
\* login k; the other then got the profile of login k from the cache, and
\* storage holds that pair
C6_Witness ==
  \E c, d \in Callers : \E k \in 1..MaxCalls :
    /\ LoggedIn(c) /\ frame[c].op = "getAccessToken"
    /\ frame[c].ret = [value |-> [access |-> k]]
    /\ CacheHit(d) /\ frame[d].op = "getUserProfile"
    /\ frame[d].ret = [value |-> [profileId |-> k]]
    /\ storage # Null
    /\ storage.profile = [profileId |-> k]
    /\ storage.token.accessToken = [access |-> k]

\* the caller's login has built its message
HasLoginMessage(c) ==
  /\ frame[c].op \in AccessorOps
  /\ frame[c].rawMessage # Null

\* C7 (message freshness): every login attempt makes its own getNonce call
\* and signs a message carrying exactly the nonce that call returned; no two
\* attempts, successive or overlapping, embed the same nonce, and their
\* messages differ.
C7_MessageFreshness ==
  /\ \A i, j \in 1..Len(embedded) : i # j => embedded[i] # embedded[j]
  /\ \A c \in Callers :
       HasLoginMessage(c)
         => /\ frame[c].rawMessage.nonce = frame[c].nonceRes.nonce
            /\ Times(frame[c], "getNonce") = 1
            /\ frame[c].args[3].message = frame[c].rawMessage
            /\ \E i \in 1..Len(embedded) :
                  embedded[i] = frame[c].rawMessage.nonce
  /\ \A c, d \in Callers :
       (c # d /\ HasLoginMessage(c) /\ HasLoginMessage(d))
         => /\ frame[c].rawMessage.nonce # frame[d].rawMessage.nonce
            /\ frame[c].rawMessage # frame[d].rawMessage

\* a second login, after the first one has completed, is signing its message
C7_Witness ==
  \E c, d \in Callers :
    /\ LoggedIn(c)
    /\ embedded = <<1, 2>>
    /\ HasLoginMessage(d)
    /\ frame[d].pc = "signMessage"
    /\ frame[d].rawMessage.nonce = 2

\* the collaborators a login has invoked when it is suspended at a position
InvokedAt(pc) ==
  CASE pc = "getIdentifier"    -> <<"getLoginResponse">>
    [] pc = "getNonce"         -> <<"getLoginResponse", "getNonce">>
    [] pc = "signMessage"      -> <<"getLoginResponse", "getNonce", "signMessage">>
    [] pc = "authenticate"     -> <<"getLoginResponse", "getNonce", "signMessage",
                                    "authenticate">>
    [] pc = "authorizeOIDC"    -> <<"getLoginResponse", "getNonce", "signMessage",
                                    "authenticate", "authorizeOIDC">>
    [] pc = "setLoginResponse" -> <<"getLoginResponse", "getNonce", "signMessage",
                                    "authenticate", "authorizeOIDC",
                                    "setLoginResponse">>

InLogin(c) == frame[c].op \in AccessorOps /\ frame[c].pc \in LoginStages

\* C8 (no mutual exclusion of logins): an accessor that found no valid
\* session enters the login orchestrator, and a login advances through each
\* of its stages and performs its own storage write, whatever the other
\* caller is doing; every login in flight has made its own sequence of
\* collaborator calls.  Two logins are in flight at the same time in the
\* witness.
C8_NoMutualExclusion ==
  \A c \in Callers :
    /\ (frame[c].pc = "getAuthSession" /\ frame[c].session = Null
          /\ signer # Null)
         => ENABLED (AccessorResume(c) /\ frame'[c].pc = "getIdentifier")
    /\ InLogin(c) => frame[c].invoked = InvokedAt(frame[c].pc)
    /\ (InLogin(c) /\ frame[c].pc = "getIdentifier") => ENABLED LoginGetNonce(c)
    /\ (InLogin(c) /\ frame[c].pc = "getNonce") => ENABLED GetNonceSettles(c)
    /\ (InLogin(c) /\ frame[c].pc = "signMessage") => ENABLED SignMessageSettles(c)
    /\ (InLogin(c) /\ frame[c].pc = "authenticate") => ENABLED AuthenticateSettles(c)
    /\ (InLogin(c) /\ frame[c].pc = "authorizeOIDC") => ENABLED AuthorizeOIDCSettles(c)
    /\ (InLogin(c) /\ frame[c].pc = "setLoginResponse")
         => ENABLED (SetLoginResponseSettles(c) /\ storage' = frame[c].result)

\* both callers are inside #login, each about to overwrite storage with the
\* result of its own nonce / authenticate / authorize sequence
C8_Witness ==
  \E c, d \in Callers :
    /\ c # d
    /\ InLogin(c) /\ frame[c].pc = "setLoginResponse"
    /\ InLogin(d) /\ frame[d].pc = "setLoginResponse"
    /\ frame[c].nonceRes # frame[d].nonceRes
    /\ frame[c].result # frame[d].result

\* C9: every access token getAccessToken() returns is either the token of a
\* session whose age was below SESSION_LIFETIME_MS when this call's gate
\* examined it, or the token of the login this call ran; and a call whose
\* gate finds the stored session's age at or beyond SESSION_LIFETIME_MS gets
\* no session and goes on into the login orchestrator instead.
C9_NeverExpiredToken ==
  [][\A c \in Callers :
       /\ ( /\ frame'[c].op = "getAccessToken"
            /\ frame'[c].pc = "done"
            /\ frame'[c] # frame[c] )
          => \/ /\ frame[c].pc = "getAuthSession"
                /\ frame[c].session # Null
                /\ frame[c].session = frame[c].auth
                /\ frame[c].currentTime - frame[c].session.token.obtainedAt
                     < SESSION_LIFETIME_MS
                /\ frame'[c].ret =
                     [value |-> frame[c].session.token.accessToken]
             \/ /\ frame[c].pc = "setLoginResponse"
                /\ Times(frame[c], "authorizeOIDC") = 1
                /\ frame'[c].ret =
                     [value |-> frame[c].tokenResponse.accessToken]
       /\ ( /\ frame[c].pc = "getLoginResponse"
            /\ frame'[c].pc = "getAuthSession"
            /\ storage # Null
            /\ now - storage.token.obtainedAt >= SESSION_LIFETIME_MS )
          => frame'[c].session = Null
       /\ ( /\ frame[c].pc = "getAuthSession"
            /\ frame[c].op \in AccessorOps
            /\ frame[c].session = Null
            /\ frame'[c] # frame[c] )
          => \/ frame'[c].pc = "getIdentifier"
             \/ frame'[c].pc = "failed" /\ frame'[c].err = ValidationError
    ]_vars

\* an earlier call returned the stored token from the cache; a later call,
\* made once that session had expired, ran a login and returned its token
C9_Witness ==
  \E c, d \in Callers :
    /\ CacheHit(c) /\ frame[c].op = "getAccessToken"
    /\ frame[c].ret = [value |-> StoredBefore.token.accessToken]
    /\ LoggedIn(d) /\ frame[d].op = "getAccessToken"
    /\ frame[d].ret = [value |-> [access |-> 1]]
    /\ storage.token.accessToken = [access |-> 1]
    /\ storage.token.obtainedAt >= SESSION_LIFETIME_MS

\* C10 (failure propagation): when an awaited collaborator fails, the call
\* fails with that collaborator's failure in that same step, returns
\* nothing, and has invoked nothing beyond the failed collaborator; no
\* collaborator is invoked twice within one call; a failed call does nothing
\* more (its caller can only start a new call).
C10_FailurePropagation ==
  [][\A c \in Callers :
       /\ (frame[c].pc \in Collaborators /\ frame'[c].pc = "failed")
          => /\ frame'[c].err = CollaboratorFailure(frame[c].pc)
             /\ frame'[c].ret = Null
             /\ frame'[c].invoked = frame[c].invoked
             /\ frame[c].invoked[Len(frame[c].invoked)] = frame[c].pc
             /\ UNCHANGED <<storage, nonceCounter, signer>>
       /\ (frame'[c].invoked # frame[c].invoked /\ frame[c].pc \notin Settled)
          => /\ Len(frame'[c].invoked) = Len(frame[c].invoked) + 1
             /\ \A i \in 1..Len(frame[c].invoked) :
                  /\ frame'[c].invoked[i] = frame[c].invoked[i]
                  /\ frame'[c].invoked[i] # frame'[c].invoked[Len(frame'[c].invoked)]
       /\ (frame[c].pc = "failed" /\ frame'[c] # frame[c])
          => started' = started + 1
    ]_vars

\* the wallet refused to sign: the login failed with that refusal after
\* getNonce and the signer, and nothing later was invoked
C10_Witness ==
  \E c \in Callers :
    /\ frame[c].pc = "failed"
    /\ frame[c].op \in AccessorOps
    /\ frame[c].err = CollaboratorFailure("signMessage")
    /\ frame[c].invoked = <<"getLoginResponse", "getNonce", "signMessage">>
    /\ frame[c].ret = Null


\* the caller's last call was refused for want of a signer
Refused(c) == frame[c].pc = "failed" /\ frame[c].err = ValidationError

\* C11 (the precondition error is recoverable): a call refused with the
\* precondition error changes nothing but the caller's own outcome (signer,
\* storage and the nonce service are as before, and the caller is free to
\* call again); once prepare() has attached a signer, the call the refused
\* caller makes next is not refused: getIdentifier() returns the address,
\* signMessage() reaches the wallet, an accessor reads storage and, finding
\* no session, enters the login.
C11_PreconditionRecoverable ==
  [][\A c \in Callers :
       /\ (frame'[c] # frame[c] /\ frame'[c].err = ValidationError)
          => /\ frame'[c].pc \in Settled
             /\ UNCHANGED <<signer, storage, nonceCounter, embedded, now>>
             /\ \A d \in Callers \ {c} : frame'[d] = frame[d]
       /\ (Refused(c) /\ signer # Null /\ frame'[c] # frame[c])
          => /\ frame'[c].err = NoError
             /\ frame'[c].op = "getIdentifier"
                  => /\ frame'[c].pc = "done"
                     /\ frame'[c].ret = [value |-> signer.address]
             /\ frame'[c].op = "signMessage" => frame'[c].pc = "signMessage"
             /\ frame'[c].op \in AccessorOps
                  => frame'[c].pc = "getLoginResponse"
       /\ ( /\ frame[c].pc = "getAuthSession"
            /\ frame[c].session = Null
            /\ signer # Null
            /\ frame'[c] # frame[c] )
          => frame'[c].pc = "getIdentifier"
    ]_vars

\* one caller's getAccessToken() was refused; a signer was then attached and
\* the same call, made by the other caller, logged in
C11_Witness ==
  \E c, d \in Callers :
    /\ Refused(c) /\ frame[c].op = "getAccessToken"
    /\ signer # Null
    /\ LoggedIn(d) /\ frame[d].op = "getAccessToken"


\* the order in which #login (after the gate's storage read) calls its
\* collaborators
StageOrder ==
  <<"getLoginResponse", "getNonce", "signMessage", "authenticate",
    "authorizeOIDC", "setLoginResponse">>

\* C12 (stage ordering): the collaborator calls of an accessor call are a
\* prefix of getLoginResponse, getNonce, signMessage, authenticate,
\* authorizeOIDC, setLoginResponse (each at most once, none skipped, never
\* starting in the middle), and a login suspended on a stage holds the
\* results of all the stages before it.
C12_StageOrdering ==
  \A c \in Callers :
    frame[c].op \in AccessorOps =>
      /\ Len(frame[c].invoked) \in 1..Len(StageOrder)
      /\ frame[c].invoked = SubSeq(StageOrder, 1, Len(frame[c].invoked))
      /\ frame[c].pc \in Collaborators
           => frame[c].invoked[Len(frame[c].invoked)] = frame[c].pc
      /\ frame[c].pc \in {"signMessage", "authenticate", "authorizeOIDC",
                          "setLoginResponse"}
           => frame[c].nonceRes # Null /\ frame[c].rawMessage # Null
      /\ frame[c].pc \in {"authenticate", "authorizeOIDC", "setLoginResponse"}
           => frame[c].signature # Null
      /\ frame[c].pc \in {"authorizeOIDC", "setLoginResponse"}
           => frame[c].authResponse # Null
      /\ frame[c].pc = "setLoginResponse" => frame[c].tokenResponse # Null
      /\ frame[c].pc \in {"getLoginResponse", "getAuthSession", "getIdentifier",
                          "getNonce"}
           => frame[c].nonceRes = Null /\ frame[c].rawMessage = Null
      /\ frame[c].pc \in {"getLoginResponse", "getAuthSession", "getIdentifier",
                          "getNonce", "signMessage"}
           => frame[c].signature = Null /\ frame[c].authResponse = Null
      /\ frame[c].pc # "setLoginResponse" => frame[c].result = Null

\* one login has gone through all its stages, another stopped at authenticate
C12_Witness ==
  \E c, d \in Callers :
    /\ LoggedIn(c) /\ frame[c].invoked = StageOrder
    /\ frame[d].op \in AccessorOps /\ frame[d].pc = "failed"
    /\ frame[d].invoked = SubSeq(StageOrder, 1, 4)


\* the login of this caller has submitted its message to authenticate
Submitted(c) ==
  /\ frame[c].op \in AccessorOps
  /\ frame[c].pc \in {"authenticate", "authorizeOIDC", "setLoginResponse"}

\* C13: a login attempt builds its sign-in message once, from the nonce it
\* has obtained; the message it submits to authenticate is the very message
\* it passed to the signer, and the signature it submits is the one that
\* signer returned for that message.
C13_OneMessage ==
  \A c \in Callers :
    /\ HasLoginMessage(c)
         => /\ frame[c].nonceRes # Null
            /\ frame[c].invoked[2] = "getNonce"
            /\ frame[c].args[3].message = frame[c].rawMessage
            /\ Cardinality({i \in 1..Len(embedded) :
                              embedded[i] = frame[c].nonceRes.nonce}) = 1
    /\ Submitted(c)
         => /\ frame[c].args[4].rawMessage = frame[c].args[3].message
            /\ frame[c].args[4].signature =
                 SignerSignMessage(frame[c].args[3].signer,
                                   frame[c].args[3].message)
            /\ frame[c].args[4].signature.message = frame[c].args[4].rawMessage
            /\ frame[c].args[4].signature = frame[c].signature

\* a login has submitted its message after the clock moved on and another
\* signer was attached: building the message anew would have given another one
C13_Witness ==
  \E c \in Callers :
    /\ Submitted(c)
    /\ frame[c].pc = "authenticate"
    /\ now > frame[c].rawMessage.issuedAt
    /\ signer # frame[c].signerCalled
    /\ frame[c].args[4].rawMessage = frame[c].args[3].message


\* the step in which the caller's cache gate runs
GateStep(c) ==
  /\ frame[c].pc = "getLoginResponse"
  /\ frame'[c].pc = "getAuthSession"

\* C14 (the cache gate is a pure read): the step in which #getAuthSession
\* decides, on an absent, a valid or an expired session alike, leaves storage
\* as it is, calls no collaborator and starts no login; an expired session
\* stays in storage, and storage changes only in the step in which a
\* successful login's setLoginResponse completes.
C14_GateIsPureRead ==
  [][ /\ \A c \in Callers :
           GateStep(c)
             => /\ storage' = storage
                /\ frame'[c].invoked = <<"getLoginResponse">>
                /\ frame'[c].auth = storage
                /\ frame'[c].session \in {Null, storage}
                /\ UNCHANGED <<signer, nonceCounter, embedded, now>>
      /\ \A c \in Callers :
           (frame[c].pc = "getAuthSession" /\ frame'[c] # frame[c])
             => storage' = storage
      /\ (storage # Null /\ storage' # storage)
           => \E c \in Callers :
                /\ frame[c].pc = "setLoginResponse"
                /\ Len(frame[c].invoked) = Len(StageOrder)
                /\ frame'[c].pc = "done"
                /\ storage' = frame[c].result
                /\ storage' # Null
    ]_vars

\* the gate has found the stored session expired, and storage still holds it
C14_Witness ==
  \E c \in Callers :
    /\ frame[c].pc = "getAuthSession"
    /\ frame[c].auth # Null
    /\ frame[c].session = Null
    /\ storage = frame[c].auth
    /\ now - storage.token.obtainedAt >= SESSION_LIFETIME_MS


\* the caller's getIdentifier() call is made in this step
IdentifierCalled(c) ==
  /\ frame[c].pc \in Settled
  /\ frame'[c] # frame[c]
  /\ frame'[c].op = "getIdentifier"

\* C15 (signer binding lifecycle): the binding is absent at construction and
\* changes only in a prepare(s) step, which is possible in every state and
\* leaves exactly s bound whatever was bound before; getIdentifier() returns
\* the address of the signer bound at the call, i.e. the most recently
\* attached one; once a signer is bound the binding is never absent again and
\* no operation ends with the precondition error.
C15_SignerLifecycle ==
  /\ signer = Null
  /\ [](\A s \in Signers : ENABLED (prepare(s) /\ signer' = s))
  /\ [][ /\ signer' # signer
              => /\ signer' \in Signers
                 /\ UNCHANGED <<storage, now, frame, nonceCounter, started,
                                embedded>>
         /\ signer # Null => signer' # Null
         /\ \A c \in Callers :
              /\ (IdentifierCalled(c) /\ signer # Null)
                   => /\ frame'[c].pc = "done"
                      /\ frame'[c].ret = [value |-> signer.address]
              /\ (IdentifierCalled(c) /\ signer = Null)
                   => /\ frame'[c].pc = "failed"
                      /\ frame'[c].err = ValidationError
              /\ (signer # Null /\ frame'[c] # frame[c])
                   => frame'[c].err # ValidationError
       ]_vars

\* a second prepare() replaced the first signer: one getIdentifier() call
\* returned the first signer's address, a later one the second signer's
C15_Witness ==
  /\ signer # Null
  /\ \E c, d \in Callers :
       /\ frame[c].op = "getIdentifier" /\ frame[c].pc = "done"
       /\ frame[d].op = "getIdentifier" /\ frame[d].pc = "done"
       /\ frame[c].ret # frame[d].ret
       /\ frame[d].ret = [value |-> signer.address]


\* C16 (signer consistency within one login attempt): the address for which
\* the attempt requested its nonce, the address, domain and chain id embedded
\* in the message it built, and the signer whose signMessage it called all
\* belong to one signer binding, also when prepare() was called with another
\* signer while the attempt was suspended.
C16_SignerConsistency ==
  \A c \in Callers :
    HasLoginMessage(c)
      => LET asked   == frame[c].args[2].address
             message == frame[c].rawMessage
             signing == frame[c].args[3].signer
         IN  /\ frame[c].invoked[2] = "getNonce"
             /\ frame[c].invoked[3] = "signMessage"
             /\ \E s \in Signers :
                  /\ asked = s.address
                  /\ message.address = s.address
                  /\ message.domain = s.domain
                  /\ message.chainId = s.chainId
                  /\ signing = s


\* the accessor of caller c ends with the precondition error in this step
AccessorRefusedNow(c) ==
  /\ frame'[c].op \in AccessorOps
  /\ frame[c].pc # "failed"
  /\ frame'[c].pc = "failed"
  /\ frame'[c].err = ValidationError

\* C17 (the cached path needs no signer): when the gate returned a session, the
\* accessor returns the field of the session storage.getLoginResponse gave
\* it, signer attached or not; an accessor ends
\* with the precondition error only when the gate returned no session, and
\* then after storage.getLoginResponse was read and nothing else was called.
C17_CachedPathNeedsNoSigner ==
  [][ \A c \in Callers :
        /\ (frame[c].pc = "getAuthSession" /\ frame[c].session # Null
              /\ frame'[c] # frame[c])
             => /\ frame'[c].pc = "done"
                /\ frame'[c].err = NoError
                /\ frame'[c].ret =
                     [value |-> IF frame[c].op = "getAccessToken"
                                  THEN frame[c].auth.token.accessToken
                                  ELSE frame[c].auth.profile]
        /\ AccessorRefusedNow(c)
             => /\ frame[c].pc = "getAuthSession"
                /\ frame[c].session = Null
                /\ signer = Null
                /\ frame[c].invoked = <<"getLoginResponse">>
                /\ frame'[c].invoked = <<"getLoginResponse">>
    ]_vars

\* no signer was ever attached: one accessor returned the stored token from
\* the cache, and a later one, the session having expired, was refused
C17_Witness ==
  /\ signer = Null
  /\ \E c, d \in Callers :
       /\ CacheHit(c)
       /\ frame[c].ret = [value |-> StoredBefore.token.accessToken]
       /\ Refused(d)
       /\ frame[d].op \in AccessorOps
       /\ frame[d].invoked = <<"getLoginResponse">>


\* the login of caller c completes in this step
LoginCompletes(c) ==
  /\ frame[c].pc = "setLoginResponse"
  /\ frame'[c].pc = "done"

\* C18 (last writer wins): the step in which a login's setLoginResponse
\* completes leaves exactly that login's result in storage, whatever storage
\* held (a session of another attempt, with an older or a newer obtainedAt),
\* and hands its caller the field of that same result, issued for the nonce
\* of its own attempt; what other callers were handed is not touched.
C18_LastWriterWins ==
  [][ \A c \in Callers :
        LoginCompletes(c)
          => /\ storage' = frame[c].result
             /\ frame[c].result =
                  LoginResult(frame[c].authResponse, frame[c].tokenResponse)
             /\ frame[c].result.profile.profileId = frame[c].nonceRes.nonce
             /\ frame[c].result.token.accessToken.access = frame[c].nonceRes.nonce
             /\ frame'[c].ret =
                  [value |-> IF frame[c].op = "getAccessToken"
                               THEN frame[c].tokenResponse.accessToken
                               ELSE frame[c].authResponse.profile]
             /\ \A d \in Callers \ {c} : frame'[d] = frame[d]
    ]_vars

\* two overlapping logins both succeeded; storage holds the token of the one
\* that got the earlier nonce, which wrote last, and the other caller was
\* handed a token that is not the one in storage
C18_Witness ==
  \E c, d \in Callers :
    /\ LoggedIn(c) /\ frame[c].op = "getAccessToken"
    /\ LoggedIn(d) /\ frame[d].op = "getAccessToken"
    /\ storage # Null
    /\ frame[c].ret = [value |-> storage.token.accessToken]
    /\ frame[d].ret # frame[c].ret
    /\ frame[d].ret.value.access > storage.token.accessToken.access
    /\ storage.token.obtainedAt < now

====
